---------------------------- MODULE Spec2Model ----------------------------
(***************************************************************************)
(* okon: bulk construction of an on-disk B-tree from a sorted key stream   *)
(* (btree_sorted_keys_inserter over btree_base) and the root-to-leaf       *)
(* lookup that reads the resulting store.                                  *)
(*                                                                         *)
(* Keys are modelled as positive integers ordered by <, standing for the   *)
(* 20-byte digests ordered by memcmp; the value-initialised key slot of a  *)
(* fresh node is ZeroKey.  Node identifiers and loop indices are unsigned  *)
(* machine words: decrementing 0 yields the largest word (UintMax).        *)
(***************************************************************************)
EXTENDS Integers, Sequences, FiniteSets, TLC

\* ------------------------------------------------------------------------
\* Bounds of the model
\* ------------------------------------------------------------------------
MaxOrder == 3          \* orders 1..MaxOrder are built
MaxKeys  == 27         \* at most this many keys are inserted
MaxSkips == 1          \* at most this many values are skipped by the stream

\* ------------------------------------------------------------------------
\* Machine words
\* ------------------------------------------------------------------------
\* Largest value of the unsigned words used for pointers, counts and loop
\* indices.  The model checker's integers are 32-bit signed, so the word is
\* modelled one bit narrower than uint32_t; only the wrap at 0 is relevant.
UintMax == 2147483647

\* x - 1u on an unsigned word
Dec(x) == IF x = 0 THEN UintMax ELSE x - 1

\* x - y on unsigned words, for 0 <= x, y <= UintMax
USub(x, y) == IF x >= y THEN x - y ELSE (UintMax - y) + x + 1

\* btree_node::k_unused_pointer, the UNUSED sentinel
k_unused_pointer == UintMax

\* the value-initialised content of a key slot
ZeroKey == 0

\* ------------------------------------------------------------------------
\* btree_node
\* ------------------------------------------------------------------------
\* btree_node{ order, parent_ptr }: 2m+1 UNUSED pointers, 2m zero key slots
Node(order, parent_ptr) ==
  [ is_leaf        |-> FALSE,
    keys_count     |-> 0,
    pointers       |-> [i \in 0 .. 2 * order |-> k_unused_pointer],
    keys           |-> [i \in 0 .. 2 * order - 1 |-> ZeroKey],
    parent_pointer |-> parent_ptr,
    this_pointer   |-> k_unused_pointer ]

\* number of key slots of a node (keys.size())
KeySlots(node) == Cardinality(DOMAIN node.keys)

is_full(node) == node.keys_count = KeySlots(node)

\* append a key behind the live keys
push_back(node, sha1) ==
  [node EXCEPT !.keys[node.keys_count] = sha1, !.keys_count = @ + 1]

\* insert a key as the new rightmost key of a node on the rightmost path
insert(node, sha1) ==
  [node EXCEPT !.keys[node.keys_count] = sha1, !.keys_count = @ + 1]

\* the child right of the last live key
rightmost_pointer(node) == node.pointers[node.keys_count]

\* number of child pointers that are not UNUSED
children_count(node) ==
  IF node.is_leaf THEN 0
  ELSE Cardinality({i \in DOMAIN node.pointers : node.pointers[i] # k_unused_pointer})

\* ------------------------------------------------------------------------
\* btree_base: header and page codec over the byte store
\* ------------------------------------------------------------------------
\* The store after btree_base{ storage, order }: the order is written at
\* offset 0, nothing else.
EmptyStorage(order) ==
  [ order        |-> order,
    root_written |-> FALSE,
    root         |-> 0,
    nodes        |-> << >>,
    log          |-> << >> ]

\* the record of a node as laid out on disk (this_pointer is not persisted)
Encode(node) ==
  [ is_leaf        |-> node.is_leaf,
    keys_count     |-> node.keys_count,
    pointers       |-> node.pointers,
    keys           |-> node.keys,
    parent_pointer |-> node.parent_pointer ]

\* identifiers of the node records present in the store
Written(st) == DOMAIN st.nodes

write_node(st, node) ==
  [st EXCEPT
     !.nodes = [p \in (DOMAIN st.nodes) \cup {node.this_pointer} |->
                  IF p = node.this_pointer THEN Encode(node) ELSE st.nodes[p]],
     !.log   = Append(@, node.this_pointer)]

\* a read_node that leaves this_pointer as constructed
read_node_without_this_pointer(st, ptr) ==
  [ is_leaf        |-> st.nodes[ptr].is_leaf,
    keys_count     |-> st.nodes[ptr].keys_count,
    pointers       |-> st.nodes[ptr].pointers,
    keys           |-> st.nodes[ptr].keys,
    parent_pointer |-> st.nodes[ptr].parent_pointer,
    this_pointer   |-> k_unused_pointer ]

\* read_node of a record that is present in the store
read_node(st, ptr) ==
  [ is_leaf        |-> st.nodes[ptr].is_leaf,
    keys_count     |-> st.nodes[ptr].keys_count,
    pointers       |-> st.nodes[ptr].pointers,
    keys           |-> st.nodes[ptr].keys,
    parent_pointer |-> st.nodes[ptr].parent_pointer,
    this_pointer   |-> ptr ]

\* set_root_ptr: the in-memory root pointer and the header field at offset 4
set_root_ptr(b, ptr) ==
  [b EXCEPT !.root = ptr, !.st.root_written = TRUE, !.st.root = ptr]

expected_min_number_of_keys(b) == b.order

\* ------------------------------------------------------------------------
\* btree_sorted_keys_inserter: insertion
\* ------------------------------------------------------------------------
\* A builder value b carries the members of the inserter and its store:
\*   order, root, st      (btree_base: m_order, m_root_ptr, m_storage)
\*   next, path, height   (m_next_node_ptr, m_current_path, m_tree_height)
\*   created, took        (m_nodes_created_during_rebalancing,
\*                         m_keys_took_by_provider)
\*   spine                (identifiers of the path at finalization)
\*   fault                ("none", or why the running operation stopped)

current_node(b) == b.path[Len(b.path)]

SetCurrent(b, node) == [b EXCEPT !.path[Len(b.path)] = node]

PopBack(b) == [b EXCEPT !.path = SubSeq(@, 1, Len(@) - 1)]

Flush(b, node) == [b EXCEPT !.st = write_node(@, node)]

RECURSIVE create_children_till_leaf_without_parent(_, _)
\* a chain whose new nodes are not given their parent's identifier
create_children_till_leaf_without_parent(b, level_from_leafs) ==
  LET is_on_leaf_level == (level_from_leafs = 0)
      parent_place     == Len(b.path)
      parent           == b.path[parent_place]
      node == [Node(b.order, k_unused_pointer) EXCEPT
                 !.this_pointer = b.next,
                 !.keys_count   = 0,
                 !.is_leaf      = is_on_leaf_level]
      b1 == [b EXCEPT
               !.next = @ + 1,
               !.path = Append(
                  [@ EXCEPT ![parent_place].pointers[parent.keys_count] =
                                 node.this_pointer],
                  node)]
  IN  IF is_on_leaf_level THEN b1
      ELSE create_children_till_leaf_without_parent(b1, level_from_leafs - 1)

RECURSIVE create_children_till_leaf(_, _)
create_children_till_leaf(b, level_from_leafs) ==
  LET is_on_leaf_level == (level_from_leafs = 0)
      parent_place     == Len(b.path)
      parent           == b.path[parent_place]
      node == [Node(b.order, parent.this_pointer) EXCEPT
                 !.this_pointer = b.next,
                 !.keys_count   = 0,
                 !.is_leaf      = is_on_leaf_level]
      b1 == [b EXCEPT
               !.next = @ + 1,
               !.path = Append(
                  [@ EXCEPT ![parent_place].pointers[parent.keys_count] =
                                 node.this_pointer],
                  node)]
  IN  IF is_on_leaf_level THEN b1
      ELSE create_children_till_leaf(b1, level_from_leafs - 1)

\* a root split whose identifier for the new root is not consumed
split_root_and_grow_reuses_pointer(b, sha1, level_from_leafs) ==
  LET new_root_ptr == b.next
      old_root     == [current_node(b) EXCEPT !.parent_pointer = new_root_ptr]
      old_root_ptr == old_root.this_pointer
      b1 == PopBack(Flush(b, old_root))
      new_root == [insert(Node(b.order, k_unused_pointer), sha1) EXCEPT
                     !.pointers[0]  = old_root_ptr,
                     !.this_pointer = new_root_ptr,
                     !.is_leaf      = FALSE]
      b2 == create_children_till_leaf(
              [b1 EXCEPT !.path = Append(@, new_root)], level_from_leafs)
  IN  [set_root_ptr(b2, new_root_ptr) EXCEPT !.height = @ + 1]

\* a root split that does not hang the old root under the new one
split_root_and_grow_drops_old_root(b, sha1, level_from_leafs) ==
  LET new_root_ptr == b.next
      old_root     == [current_node(b) EXCEPT !.parent_pointer = new_root_ptr]
      b1 == PopBack(Flush([b EXCEPT !.next = @ + 1], old_root))
      new_root == [insert(Node(b.order, k_unused_pointer), sha1) EXCEPT
                     !.this_pointer = new_root_ptr,
                     !.is_leaf      = FALSE]
      b2 == create_children_till_leaf(
              [b1 EXCEPT !.path = Append(@, new_root)], level_from_leafs)
  IN  [set_root_ptr(b2, new_root_ptr) EXCEPT !.height = @ + 1]

split_root_and_grow(b, sha1, level_from_leafs) ==
  LET new_root_ptr == b.next
      old_root     == [current_node(b) EXCEPT !.parent_pointer = new_root_ptr]
      old_root_ptr == old_root.this_pointer
      b1 == PopBack(Flush([b EXCEPT !.next = @ + 1], old_root))
      new_root == [insert(Node(b.order, k_unused_pointer), sha1) EXCEPT
                     !.pointers[0]  = old_root_ptr,
                     !.this_pointer = new_root_ptr,
                     !.is_leaf      = FALSE]
      b2 == create_children_till_leaf(
              [b1 EXCEPT !.path = Append(@, new_root)], level_from_leafs)
  IN  [set_root_ptr(b2, new_root_ptr) EXCEPT !.height = @ + 1]

RECURSIVE split_node(_, _, _)
split_node(b, sha1, level_from_leafs) ==
  IF Len(b.path) = 1
  THEN split_root_and_grow(b, sha1, level_from_leafs)
  ELSE LET b1 == PopBack(Flush(b, current_node(b)))
           parent_node == current_node(b1)
       IN  IF is_full(parent_node)
           THEN split_node(b1, sha1, level_from_leafs + 1)
           ELSE create_children_till_leaf(
                  SetCurrent(b1, insert(parent_node, sha1)), level_from_leafs)

\* an insert_sorted that also writes the leaf through in the common case
insert_sorted_write_through(b, sha1) ==
  IF is_full(current_node(b))
  THEN split_node(b, sha1, 0)
  ELSE Flush(SetCurrent(b, push_back(current_node(b), sha1)),
             push_back(current_node(b), sha1))

\* an insert_sorted that splits one key before the leaf is full
insert_sorted_splits_early(b, sha1) ==
  IF current_node(b).keys_count + 1 >= KeySlots(current_node(b))
  THEN split_node(b, sha1, 0)
  ELSE SetCurrent(b, push_back(current_node(b), sha1))

insert_sorted(b, sha1) ==
  IF is_full(current_node(b))
  THEN split_node(b, sha1, 0)
  ELSE SetCurrent(b, push_back(current_node(b), sha1))

\* a constructor that does not mark the initial root as a leaf
NewBuilderRootNotLeaf(order) ==
  [ order   |-> order,
    root    |-> 0,
    st      |-> EmptyStorage(order),
    next    |-> 1,
    path    |-> << [Node(order, k_unused_pointer) EXCEPT !.this_pointer = 0] >>,
    height  |-> 1,
    created |-> {},
    took    |-> << >>,
    spine   |-> {},
    fault   |-> "none" ]

\* the builder after btree_sorted_keys_inserter{ storage, order }
NewBuilder(order) ==
  [ order   |-> order,
    root    |-> 0,
    st      |-> EmptyStorage(order),
    next    |-> 1,
    path    |-> << [Node(order, k_unused_pointer) EXCEPT
                      !.this_pointer = 0, !.is_leaf = TRUE] >>,
    height  |-> 1,
    created |-> {},
    took    |-> << >>,
    spine   |-> {},
    fault   |-> "none" ]

\* ------------------------------------------------------------------------
\* btree_sorted_keys_inserter: finalization
\* ------------------------------------------------------------------------
Fail(b, why) == [b EXCEPT !.fault = why]

RECURSIVE FlushPath(_, _)
\* for (const auto& node : m_current_path) write_node(node), from index i on
FlushPath(b, i) ==
  IF i > Len(b.path) THEN b ELSE FlushPath(Flush(b, b.path[i]), i + 1)

\* a variant that compares the level of the node itself with the height
ChildrenAreLeafsAtOwnLevel(b, level) == (level = b.height)

\* whether the children of a node at the given level are leaves
ChildrenAreLeafs(b, level) == (level + 1 = b.height)

RECURSIVE create_nodes_to_fulfill_b_tree(_, _, _)
RECURSIVE FulfillLoop(_, _, _, _, _)

\* the for loop of create_nodes_to_fulfill_b_tree, from child_index on;
\* yields the builder and the local copy of the node
FulfillLoop(b, node, child_index, children_are_leafs, level) ==
  IF b.fault # "none" \/ ~(child_index < expected_min_number_of_keys(b) + 1)
  THEN [b |-> b, node |-> node]
  ELSE LET child == [Node(b.order, node.this_pointer) EXCEPT
                       !.this_pointer = b.next,
                       !.keys_count   = 0,
                       !.is_leaf      = children_are_leafs]
           b1 == Flush([b EXCEPT !.next = @ + 1,
                                 !.created = @ \cup {child.this_pointer}],
                       child)
           node1 == [node EXCEPT !.pointers[child_index] = child.this_pointer]
           b2 == IF ~children_are_leafs
                 THEN create_nodes_to_fulfill_b_tree(b1, child.this_pointer, level + 1)
                 ELSE b1
       IN  FulfillLoop(b2, node1, child_index + 1, children_are_leafs, level)

create_nodes_to_fulfill_b_tree(b, current_node_ptr, level) ==
  IF b.fault # "none" THEN b
  ELSE IF current_node_ptr \notin Written(b.st) THEN Fail(b, "io_error")
  ELSE
    LET node == read_node(b.st, current_node_ptr)
        expected_min_number_of_children == expected_min_number_of_keys(b) + 1
    IN  IF node.is_leaf THEN b
        ELSE IF current_node_ptr = b.root
        THEN create_nodes_to_fulfill_b_tree(b, rightmost_pointer(node), level + 1)
        ELSE IF node.keys_count >= expected_min_number_of_children THEN b
        ELSE LET r == FulfillLoop(b, node, Dec(children_count(node)),
                                  ChildrenAreLeafs(b, level), level)
             IN  IF r.b.fault # "none" THEN r.b ELSE Flush(r.b, r.node)

get_number_of_keys_taken_from_node_during_rebalance(b, node) ==
  IF node.this_pointer \in DOMAIN b.took THEN b.took[node.this_pointer] ELSE 0

get_number_of_keys_in_node_during_rebalance(b, node) ==
  USub(node.keys_count, get_number_of_keys_taken_from_node_during_rebalance(b, node))

\* keys a flushed node can still lend
Lendable(b, p) ==
  LET n == read_node(b.st, p)
      t == get_number_of_keys_taken_from_node_during_rebalance(b, n)
  IN  IF n.keys_count > t THEN n.keys_count - t ELSE 0

\* the last key of p that has not been lent
LastLendableKey(b, p) == b.st.nodes[p].keys[Lendable(b, p) - 1]

\* flushed nodes left of the spine that still have keys to lend; nodes
\* created during rebalancing are empty donors
Donors(b) ==
  {p \in Written(b.st) \ (b.spine \cup b.created) : Lendable(b, p) > 0}

\* get_greatest_not_visited_key: the last unlent key of the rightmost donor
\* is lent (it stays in the donor's record) and counted in took
get_greatest_not_visited_key(b) ==
  IF Donors(b) = {} THEN [b |-> Fail(b, "no_donor"), key |-> ZeroKey]
  ELSE LET d == CHOOSE p \in Donors(b) :
                  \A q \in Donors(b) : LastLendableKey(b, q) <= LastLendableKey(b, p)
           n == read_node(b.st, d)
           t == get_number_of_keys_taken_from_node_during_rebalance(b, n)
       IN  [ b   |-> [b EXCEPT !.took =
                        [p \in (DOMAIN b.took) \cup {d} |->
                           IF p = d THEN t + 1 ELSE b.took[p]]],
             key |-> LastLendableKey(b, d) ]

RECURSIVE rebalance_keys_in_node(_, _)
RECURSIVE RebalanceLoop(_, _, _, _, _)

\* the for loop of rebalance_keys_in_node, from key_index on; yields the
\* builder and the node being filled
RebalanceLoop(b, node, key_index, number_of_keys, children_are_leafs) ==
  IF b.fault # "none" \/ ~(key_index >= number_of_keys)
  THEN [b |-> b, node |-> node]
  ELSE
    LET visit == ~children_are_leafs
        bad_pointer_index == visit /\ key_index \notin DOMAIN node.pointers
        child_ptr == node.pointers[key_index]
        bad_read  == visit /\ ~bad_pointer_index /\ child_ptr \notin Written(b.st)
        child     == read_node(b.st, child_ptr)
    IN  IF bad_pointer_index THEN [b |-> Fail(b, "out_of_range"), node |-> node]
        ELSE IF bad_read THEN [b |-> Fail(b, "io_error"), node |-> node]
        ELSE
          LET leafs1 == IF visit THEN child.is_leaf ELSE TRUE
              b1 == IF visit /\ ~child.is_leaf
                    THEN rebalance_keys_in_node(b, child)
                    ELSE b
              g  == get_greatest_not_visited_key(b1)
          IN  IF b1.fault # "none" THEN [b |-> b1, node |-> node]
              ELSE IF g.b.fault # "none" THEN [b |-> g.b, node |-> node]
              ELSE IF key_index \notin DOMAIN node.keys
              THEN [b |-> Fail(g.b, "out_of_range"), node |-> node]
              ELSE RebalanceLoop(g.b, [node EXCEPT !.keys[key_index] = g.key],
                                 Dec(key_index), number_of_keys, leafs1)

rebalance_keys_in_node(b, node) ==
  IF b.fault # "none" THEN b
  ELSE IF node.is_leaf THEN b
  ELSE IF node.keys_count >= expected_min_number_of_keys(b) THEN b
  ELSE LET number_of_keys == get_number_of_keys_in_node_during_rebalance(b, node)
           r == RebalanceLoop(b, node, Dec(expected_min_number_of_keys(b)),
                              number_of_keys, FALSE)
       IN  IF r.b.fault # "none" THEN r.b
           ELSE Flush(r.b, [r.node EXCEPT
                              !.keys_count = expected_min_number_of_keys(b)])

rebalance_keys(b) ==
  IF b.root \notin Written(b.st) THEN Fail(b, "io_error")
  ELSE rebalance_keys_in_node(b, read_node(b.st, b.root))

rebalance_tree(b) ==
  rebalance_keys(create_nodes_to_fulfill_b_tree(b, b.root, 1))

finalize_inserting(b) ==
  rebalance_tree(
    FlushPath([b EXCEPT !.spine = {b.path[i].this_pointer : i \in 1 .. Len(b.path)}], 1))

\* ------------------------------------------------------------------------
\* Tree reader
\* ------------------------------------------------------------------------
RECURSIVE lower_bound(_, _, _, _)
\* binary search of keys[first .. first+len-1] for the first key not < target
lower_bound(keys, first, len, target) ==
  IF len = 0 THEN first
  ELSE LET half == len \div 2
           mid  == first + half
       IN  IF keys[mid] < target
           THEN lower_bound(keys, mid + 1, len - half - 1, target)
           ELSE lower_bound(keys, first, half, target)

\* the root pointer a reader loads from the header; the never written gap
\* between the order and the first node record reads as zero
LoadedRoot(st) == IF st.root_written THEN st.root ELSE 0

RECURSIVE Descend(_, _, _, _)
\* The outcome of a lookup: found is the value returned; error is TRUE when
\* a node record that is not in the store was read, and then nothing is
\* returned (fuel bounds the descent by the number of records).
Descend(st, ptr, sha1, fuel) ==
  IF ptr \notin Written(st) \/ fuel = 0 THEN [error |-> TRUE, found |-> FALSE]
  ELSE LET node == read_node(st, ptr)
           i    == lower_bound(node.keys, 0, node.keys_count, sha1)
       IN  IF i < node.keys_count /\ node.keys[i] = sha1
           THEN [error |-> FALSE, found |-> TRUE]
           ELSE IF node.is_leaf THEN [error |-> FALSE, found |-> FALSE]
           ELSE Descend(st, node.pointers[i], sha1, fuel - 1)

contains(st, sha1) ==
  Descend(st, LoadedRoot(st), sha1, Cardinality(Written(st)) + 1)

\* ------------------------------------------------------------------------
\* State and operations
\* ------------------------------------------------------------------------
VARIABLES
  m_order,                              \* btree_base::m_order
  m_root_ptr,                           \* btree_base::m_root_ptr
  m_storage,                            \* the byte store: header and records
  m_next_node_ptr,
  m_current_path,
  m_tree_height,
  m_nodes_created_during_rebalancing,
  m_keys_took_by_provider,
  spine,                                \* identifiers on the path at finalization
  pc,                                   \* "inserting", "finalized", "aborted"
  fault,                                \* why finalize_inserting did not return
  inserted,                             \* the keys fed to insert_sorted, in order
  skipped                               \* values the key stream has skipped

vars == << m_order, m_root_ptr, m_storage, m_next_node_ptr, m_current_path,
           m_tree_height, m_nodes_created_during_rebalancing,
           m_keys_took_by_provider, spine, pc, fault, inserted, skipped >>

\* the builder value of the current state
Builder ==
  [ order   |-> m_order,
    root    |-> m_root_ptr,
    st      |-> m_storage,
    next    |-> m_next_node_ptr,
    path    |-> m_current_path,
    height  |-> m_tree_height,
    created |-> m_nodes_created_during_rebalancing,
    took    |-> m_keys_took_by_provider,
    spine   |-> spine,
    fault   |-> "none" ]

\* the next state holds the builder value b
Becomes(b) ==
  /\ m_root_ptr' = b.root
  /\ m_storage' = b.st
  /\ m_next_node_ptr' = b.next
  /\ m_current_path' = b.path
  /\ m_tree_height' = b.height
  /\ m_nodes_created_during_rebalancing' = b.created
  /\ m_keys_took_by_provider' = b.took
  /\ spine' = b.spine
  /\ fault' = b.fault

Init ==
  /\ m_order \in 1 .. MaxOrder
  /\ m_root_ptr = NewBuilder(m_order).root
  /\ m_storage = NewBuilder(m_order).st
  /\ m_next_node_ptr = NewBuilder(m_order).next
  /\ m_current_path = NewBuilder(m_order).path
  /\ m_tree_height = NewBuilder(m_order).height
  /\ m_nodes_created_during_rebalancing = {}
  /\ m_keys_took_by_provider = << >>
  /\ spine = {}
  /\ pc = "inserting"
  /\ fault = "none"
  /\ inserted = << >>
  /\ skipped = 0

LastInserted == IF inserted = << >> THEN 0 ELSE inserted[Len(inserted)]

\* insert_sorted(sha1), sha1 greater than every key inserted before
InsertSorted ==
  /\ pc = "inserting"
  /\ Len(inserted) < MaxKeys
  /\ \E gap \in 0 .. (MaxSkips - skipped) :
       LET sha1 == LastInserted + 1 + gap
       IN  /\ Becomes(insert_sorted(Builder, sha1))
           /\ inserted' = Append(inserted, sha1)
           /\ skipped' = skipped + gap
  /\ pc' = "inserting"
  /\ UNCHANGED m_order

\* finalize_inserting()
FinalizeInserting ==
  /\ pc = "inserting"
  /\ LET b == finalize_inserting(Builder)
     IN  /\ Becomes(b)
         /\ pc' = IF b.fault = "none" THEN "finalized" ELSE "aborted"
  /\ UNCHANGED << m_order, inserted, skipped >>

Next == InsertSorted \/ FinalizeInserting

Spec == Init /\ [][Next]_vars

\* ------------------------------------------------------------------------
\* Views of the store used by the properties
\* ------------------------------------------------------------------------
Finalized == pc = "finalized"

InsertedKeys == {inserted[i] : i \in 1 .. Len(inserted)}

\* key values looked up: every inserted key, the values skipped between
\* them, one value below and one above
KeyUniverse == 0 .. (LastInserted + 1)

\* indices of the pointer slots of record p that are not UNUSED
LiveSlots(st, p) ==
  {i \in DOMAIN st.nodes[p].pointers : st.nodes[p].pointers[i] # k_unused_pointer}

\* children of p: the live pointers of an interior record
Children(st, p) ==
  IF p \in Written(st) /\ ~st.nodes[p].is_leaf
  THEN {st.nodes[p].pointers[i] : i \in LiveSlots(st, p)}
  ELSE {}

RECURSIVE Level(_, _, _)
\* identifiers at depth d below root (the root is at depth 1)
Level(st, root, d) ==
  IF d = 1 THEN {root}
  ELSE UNION {Children(st, p) : p \in Level(st, root, d - 1)}

\* records reachable from root through live pointers
Reachable(st, root) ==
  UNION {Level(st, root, d) : d \in 1 .. Cardinality(Written(st)) + 1} \cap Written(st)

\* live keys of record p
LiveKeys(st, p) ==
  {st.nodes[p].keys[i] : i \in 0 .. st.nodes[p].keys_count - 1}

\* keys stored in the subtree under p
SubtreeKeys(st, p) ==
  IF p \in Written(st) THEN UNION {LiveKeys(st, q) : q \in Reachable(st, p)} ELSE {}

\* live key slots, among the reachable records, that hold key k
SlotsHolding(st, root, k) ==
  {pi \in UNION {{<<p, i>> : i \in 0 .. st.nodes[p].keys_count - 1} :
                   p \in Reachable(st, root)} :
     st.nodes[pi[1]].keys[pi[2]] = k}

\* live keys of a node value are strictly ascending
Ascending(keys, count) ==
  \A i \in 0 .. count - 1 : \A j \in 0 .. count - 1 : i < j => keys[i] < keys[j]

\* contains returns true
ReturnsTrue(r) == ~r.error /\ r.found

\* contains returns false
ReturnsFalse(r) == ~r.error /\ ~r.found

\* ------------------------------------------------------------------------
\* Properties
\* ------------------------------------------------------------------------

\* C1: after finalize_inserting, contains returns true for every key that
\* was inserted.
C1_InsertedKeysFound ==
  Finalized => \A k \in InsertedKeys : ReturnsTrue(contains(m_storage, k))

\* C2: after finalize_inserting, contains returns false for every value
\* that was not inserted (below, between and above the inserted keys).
C2_OtherValuesNotFound ==
  Finalized => \A v \in KeyUniverse \ InsertedKeys : ReturnsFalse(contains(m_storage, v))

\* C3: after finalize_inserting every record has keys_count <= 2m, every
\* non-root record has keys_count >= m, and the live pointers of every
\* interior record are exactly pointers[0 .. keys_count].
C3_Occupancy ==
  Finalized =>
    \A p \in Written(m_storage) :
      LET n == m_storage.nodes[p]
      IN  /\ n.keys_count <= 2 * m_order
          /\ (p # m_root_ptr => n.keys_count >= m_order)
          /\ (~n.is_leaf => LiveSlots(m_storage, p) = 0 .. n.keys_count)

\* C4: after finalize_inserting, for every interior record N and live key
\* index i, the keys under N.pointers[i] are less than N.keys[i] and the
\* keys under N.pointers[keys_count] are greater than N.keys[keys_count-1].
C4_SubtreeOrdering ==
  Finalized =>
    \A p \in Written(m_storage) :
      LET n == m_storage.nodes[p]
      IN  (~n.is_leaf /\ n.keys_count > 0) =>
            /\ \A i \in 0 .. n.keys_count - 1 :
                 \A k \in SubtreeKeys(m_storage, n.pointers[i]) : k < n.keys[i]
            /\ \A k \in SubtreeKeys(m_storage, n.pointers[n.keys_count]) :
                 k > n.keys[n.keys_count - 1]

\* C5: the live keys of every node are strictly ascending: of every node on
\* the path and every flushed record during insertion, and of every record
\* of the finalized store.
C5_KeysAscending ==
  /\ \A p \in Written(m_storage) :
       Ascending(m_storage.nodes[p].keys, m_storage.nodes[p].keys_count)
  /\ pc = "inserting" =>
       \A i \in 1 .. Len(m_current_path) :
         Ascending(m_current_path[i].keys, m_current_path[i].keys_count)

\* C6: after finalize_inserting every inserted key occupies exactly one
\* live key slot among the records reachable from the root.
C6_KeyInOneSlot ==
  Finalized =>
    \A k \in InsertedKeys :
      Cardinality(SlotsHolding(m_storage, m_root_ptr, k)) = 1

\* C7: between builder operations the root pointer field of the header has
\* been written and holds the identifier of the current root node.
C7_HeaderRootCurrent ==
  pc \in {"inserting", "finalized"} =>
    /\ m_storage.root_written
    /\ m_storage.root = m_root_ptr
    /\ m_root_ptr = m_current_path[1].this_pointer

\* C8: after finalize_inserting the parent_pointer of every non-root record
\* names a record whose pointer array contains it, no other record's
\* pointer array contains it, and the root's parent_pointer is UNUSED.
C8_ParentPointers ==
  Finalized =>
    \A p \in Written(m_storage) :
      IF p = m_root_ptr
      THEN m_storage.nodes[p].parent_pointer = k_unused_pointer
      ELSE {q \in Written(m_storage) : p \in Children(m_storage, q)} =
             {m_storage.nodes[p].parent_pointer}

\* C9: after finalize_inserting every reachable record at depth m_tree_height
\* is a leaf and every reachable record above that depth is not.
C9_LeavesAtHeight ==
  Finalized =>
    \A d \in 1 .. m_tree_height :
      \A p \in Level(m_storage, m_root_ptr, d) :
        /\ p \in Written(m_storage)
        /\ m_storage.nodes[p].is_leaf <=> (d = m_tree_height)

\* C10: finalize_inserting returns to its caller, whatever the key counts
\* of the nodes on the rightmost path.
C10_FinalizeReturns == pc # "aborted"

\* C9 witness: a finalized tree of height 3 or more in which a leaf created
\* by the fulfillment pass hangs below the root at depth m_tree_height, next
\* to the leaves built during insertion.
C9_Witness ==
  /\ Finalized
  /\ m_tree_height >= 3
  /\ \E p \in m_nodes_created_during_rebalancing :
       /\ p \in Level(m_storage, m_root_ptr, m_tree_height)
       /\ m_storage.nodes[p].is_leaf
  /\ \E p \in Level(m_storage, m_root_ptr, m_tree_height) :
       p \notin m_nodes_created_during_rebalancing

\* C19: every read_node issued during finalize_inserting is given the
\* identifier of a record that has been written to the store.
C19_ReadsOnlyWrittenNodes == fault # "io_error"

\* write_node(n) followed by read_node(n.this_pointer) on store st yields n,
\* and every other record and the header read as before
RoundTrip(st, n) ==
  LET st2 == write_node(st, n)
  IN  /\ n.this_pointer \in Written(st2)
      /\ read_node(st2, n.this_pointer) = n
      /\ Written(st2) = Written(st) \cup {n.this_pointer}
      /\ \A p \in Written(st) \ {n.this_pointer} :
           read_node(st2, p) = read_node(st, p)
      /\ st2.order = st.order
      /\ st2.root_written = st.root_written
      /\ st2.root = st.root

\* node values handed to write_node: the nodes of the path, and every
\* stored record rewritten over another record's identifier
CodecInputs ==
  {m_current_path[i] : i \in 1 .. Len(m_current_path)} \cup
  {[read_node(m_storage, q) EXCEPT !.this_pointer = p] :
     p \in Written(m_storage), q \in Written(m_storage)}

C13_FirstSplit ==
  pc = "inserting" =>
    /\ Len(inserted) = 2 * m_order =>
         /\ m_tree_height = 1
         /\ m_next_node_ptr = 1
         /\ Written(m_storage) = {}
         /\ Len(m_current_path) = 1
         /\ m_current_path[1].is_leaf
         /\ m_current_path[1].keys_count = 2 * m_order
         /\ \A i \in 0 .. 2 * m_order - 1 :
              m_current_path[1].keys[i] = inserted[i + 1]
    /\ Len(inserted) = 2 * m_order + 1 =>
         /\ m_tree_height = 2
         /\ Len(m_current_path) = 2
         /\ ~m_current_path[1].is_leaf
         /\ m_current_path[1].this_pointer = m_root_ptr
         /\ m_current_path[1].keys_count = 1
         /\ m_current_path[1].keys[0] = inserted[2 * m_order + 1]
         /\ m_current_path[1].pointers[0] = 0
         /\ Written(m_storage) = {0}
         /\ m_storage.nodes[0].is_leaf
         /\ m_storage.nodes[0].keys_count = 2 * m_order
         /\ \A i \in 0 .. 2 * m_order - 1 :
              m_storage.nodes[0].keys[i] = inserted[i + 1]
         /\ m_current_path[1].pointers[1] = m_current_path[2].this_pointer
         /\ m_current_path[2].is_leaf
         /\ m_current_path[2].keys_count = 0

\* C13 witness: the first split has just happened for an order above 1.
C13_Witness ==
  /\ pc = "inserting"
  /\ m_order >= 2
  /\ Len(inserted) = 2 * m_order + 1
  /\ m_tree_height = 2

\* C14: after construction and after every insert_sorted the path is the
\* rightmost root-to-leaf path: as long as the height, starting at the root
\* (parent_pointer UNUSED, identifier m_root_ptr), ending in the only leaf
\* on it, each node the parent of the next and pointing to it from
\* pointers[keys_count].
C14_PathIsRightmostSpine ==
  pc = "inserting" =>
    LET n == Len(m_current_path)
    IN  /\ n = m_tree_height
        /\ m_current_path[1].parent_pointer = k_unused_pointer
        /\ m_current_path[1].this_pointer = m_root_ptr
        /\ \A i \in 1 .. n : m_current_path[i].is_leaf <=> (i = n)
        /\ \A i \in 1 .. n - 1 :
             /\ m_current_path[i + 1].parent_pointer = m_current_path[i].this_pointer
             /\ m_current_path[i].pointers[m_current_path[i].keys_count] =
                  m_current_path[i + 1].this_pointer

\* C14 witness: a path of three nodes after splits below the root, the
\* middle node having taken a key.
C14_Witness ==
  /\ pc = "inserting"
  /\ Len(m_current_path) >= 3
  /\ m_current_path[2].keys_count >= 1
  /\ m_current_path[1].keys_count >= 2

\* C15: every record flushed during insertion (a leaf, an interior node
\* popped by a recursive split, an old root replaced by a root split) holds
\* exactly 2m keys.
C15_FlushedNodesAreFull ==
  pc = "inserting" =>
    \A p \in Written(m_storage) : m_storage.nodes[p].keys_count = 2 * m_order

\* C15 witness: during insertion the store holds leaves, the old root and
\* an interior node popped by a recursive split.
C15_Witness ==
  /\ pc = "inserting"
  /\ m_tree_height = 3
  /\ Cardinality({p \in Written(m_storage) : ~m_storage.nodes[p].is_leaf}) >= 2
  /\ \E p \in Written(m_storage) : m_storage.nodes[p].is_leaf

\* identifiers in the order write_node was called, without repetition
WrittenOnce(log) ==
  \A i \in 1 .. Len(log) : \A j \in 1 .. Len(log) : i # j => log[i] # log[j]

\* C16: during insertion each record is written at most once (a flushed
\* record is never written again by a later insert_sorted), and an
\* insert_sorted into a leaf that is not full writes nothing and allocates
\* no identifier.
C16_WriteOnceDuringInsertion ==
  [][ (pc = "inserting" /\ pc' = "inserting") =>
        /\ WrittenOnce(m_storage'.log)
        /\ SubSeq(m_storage'.log, 1, Len(m_storage.log)) = m_storage.log
        /\ \A p \in Written(m_storage) :
             /\ p \in Written(m_storage')
             /\ m_storage'.nodes[p] = m_storage.nodes[p]
        /\ ~is_full(m_current_path[Len(m_current_path)]) =>
             /\ m_storage' = m_storage
             /\ m_next_node_ptr' = m_next_node_ptr ]_vars

\* C16 witness: a key has gone into a leaf that was not full, after earlier
\* inserts had flushed leaves and interior nodes.
C16_Witness ==
  /\ pc = "inserting"
  /\ Len(m_storage.log) >= 4
  /\ \E p \in Written(m_storage) : ~m_storage.nodes[p].is_leaf
  /\ m_current_path[Len(m_current_path)].keys_count >= 1

\* identifiers of the nodes on the path
PathPointers == {m_current_path[i].this_pointer : i \in 1 .. Len(m_current_path)}

\* C17: node identifiers are dense and unique: during insertion the nodes
\* on the path and the flushed records have, one each, the identifiers
\* 0 .. m_next_node_ptr - 1; after finalize_inserting the store holds a
\* record for each of them, m_next_node_ptr records in all, and the nodes
\* created by the fulfillment pass have identifiers of their own.
C17_DensePointers ==
  /\ pc = "inserting" =>
       /\ PathPointers \cup Written(m_storage) = 0 .. m_next_node_ptr - 1
       /\ PathPointers \cap Written(m_storage) = {}
       /\ Cardinality(PathPointers) = Len(m_current_path)
  /\ pc # "inserting" =>
       /\ Written(m_storage) = 0 .. m_next_node_ptr - 1
       /\ Cardinality(Written(m_storage)) = m_next_node_ptr
       /\ m_nodes_created_during_rebalancing \cap spine = {}
       /\ m_nodes_created_during_rebalancing \subseteq Written(m_storage)

\* C17 witness: a finalized store of height 3 or more whose records include
\* nodes allocated by the fulfillment pass.
C17_Witness ==
  /\ Finalized
  /\ m_tree_height >= 3
  /\ m_nodes_created_during_rebalancing # {}
  /\ Cardinality(Written(m_storage)) = m_next_node_ptr

\* the node with identifier p as it is in the current state: on the path,
\* or else in the store
NodeNow(p) ==
  IF p \in PathPointers
  THEN CHOOSE n \in {m_current_path[i] : i \in 1 .. Len(m_current_path)} :
         n.this_pointer = p
  ELSE read_node(m_storage, p)

\* pointer slots of a node value that are not UNUSED
LiveSlotsOf(n) == {s \in DOMAIN n.pointers : n.pointers[s] # k_unused_pointer}

\* C18: the fulfillment pass only fills gaps: a finalize_inserting step
\* keeps every child pointer that was live at its slot, puts new children
\* only into slots that were UNUSED, of non-root interior nodes that had
\* fewer than m+1 live children, and leaves every node built during
\* insertion reachable from the root.
C18_FulfillmentOnlyFillsGaps ==
  [][ (pc = "inserting" /\ pc' = "finalized") =>
        LET before == PathPointers \cup Written(m_storage)
        IN  /\ \A p \in before : \A s \in LiveSlotsOf(NodeNow(p)) :
                 m_storage'.nodes[p].pointers[s] = NodeNow(p).pointers[s]
            /\ \A p \in before : \A s \in DOMAIN m_storage'.nodes[p].pointers :
                 m_storage'.nodes[p].pointers[s] \in m_nodes_created_during_rebalancing'
                   => /\ NodeNow(p).pointers[s] = k_unused_pointer
                      /\ p # m_root_ptr
                      /\ ~NodeNow(p).is_leaf
                      /\ Cardinality(LiveSlotsOf(NodeNow(p))) < m_order + 1
            /\ before \subseteq Reachable(m_storage', m_root_ptr') ]_vars

\* C20: finalize_inserting is confined to the right edge: it changes no
\* record that was flushed before and is not on the path, every record it
\* adds is a node it created, and at every level of the tree it allocates
\* at most m new nodes.
C20_ConfinedToRightEdge ==
  [][ (pc = "inserting" /\ pc' = "finalized") =>
        /\ \A p \in Written(m_storage) \ PathPointers :
             m_storage'.nodes[p] = m_storage.nodes[p]
        /\ Written(m_storage') \ (Written(m_storage) \cup PathPointers)
             \subseteq m_nodes_created_during_rebalancing'
        /\ \A d \in 1 .. m_tree_height' :
             Cardinality(m_nodes_created_during_rebalancing' \cap
                         Level(m_storage', m_root_ptr', d)) <= m_order ]_vars

=============================================================================
